---- MODULE Spec2Model ----
(***************************************************************************)
(* Folder / image trash backend (image-folder-app-backend).                *)
(*                                                                         *)
(* The state is the two MongoDB collections the routes read and write      *)
(* (folders, images), the object store, the wall clock and the last HTTP   *)
(* response.  Each action is one route handler of routes/folders.js,       *)
(* routes/trash.js or the image routes, run to completion; where requests  *)
(* are served side by side, each awaited store call of a handler is an     *)
(* action of its own.                                                      *)
(*                                                                         *)
(* Strings are sequences of one-character strings, so that trimming,       *)
(* template concatenation, the $regex prefix queries and String.replace    *)
(* are computed the way the code computes them.                            *)
(***************************************************************************)
EXTENDS Integers, Sequences, FiniteSets, TLC

VARIABLES
    folders,      \* Folder collection: ObjectId -> stored document
    images,       \* Image collection: ObjectId -> stored document
    cloud,        \* object store: the public ids that still have a payload
    nextFolderId, \* next fresh Folder ObjectId
    nextImageId,  \* next fresh Image ObjectId
    now,          \* the clock read by new Date()
    strictQuery,  \* Mongoose strictQuery setting of the installed version
    resp,         \* the last request and the response it got
    log,          \* the object store calls and deletions of the last request, in order
    trip,         \* history: a folder's soft delete and the request that followed it
    calls         \* the requests being served: where each handler stands, what it read

vars == <<folders, images, cloud, nextFolderId, nextImageId, now, strictQuery,
          resp, log, trip, calls>>

----------------------------------------------------------------------------
(* Bounds of the model *)

MaxFolders == 2      \* folders ever created
MaxTreeFolders == 3  \* the same, where a three-folder tree is renamed
MaxImages == 1       \* images ever uploaded
MaxPurgeImages == 2  \* the same, where a purge meets several images
MaxClock == 2        \* the last instant of the clock
MaxDay == 32         \* the same, where the clock counts days past the retention

(* null, as in parentFolder: null and deletedAt: null; ObjectIds and dates *)
(* are positive                                                            *)
Null == 0

Users == {"u1", "u2"}
FolderIds == 1..MaxFolders
TreeFolderIds == 1..MaxTreeFolders
ImageIds == 1..MaxImages
PurgeImageIds == 1..MaxPurgeImages

(* the requests the server may be serving at one time; a handler that   *)
(* is served alone, start to end, takes none of them                     *)
Calls == {"c1", "c2"}
Idle == [op |-> "none"]

(* request bodies: the name as sent, before trimming *)
NameInputs == { <<>>, <<" ">>, <<"a">>, <<"a", " ">>, <<"a", "b">>, <<".">> }

----------------------------------------------------------------------------
(* Strings *)

RECURSIVE TrimStart(_)
TrimStart(s) ==
    IF s # <<>> /\ Head(s) = " " THEN TrimStart(Tail(s)) ELSE s

RECURSIVE TrimEnd(_)
TrimEnd(s) ==
    IF s # <<>> /\ s[Len(s)] = " " THEN TrimEnd(SubSeq(s, 1, Len(s) - 1)) ELSE s

(* String.prototype.trim *)
Trim(s) == TrimEnd(TrimStart(s))

(* `${parentPath}/${name}` *)
JoinPath(parentPath, name) == parentPath \o <<"/">> \o name

(* One regular-expression atom against one character: "." matches any     *)
(* character, every other character of the alphabet matches itself.       *)
AtomMatches(atom, ch) == atom = "." \/ atom = ch

(* A pattern in which an atom may be followed by "*", zero or more of    *)
(* it, matches at the start of s.  No pattern of the model starts with   *)
(* "*".                                                                   *)
RECURSIVE StarredPrefixMatch(_, _)
StarredPrefixMatch(pattern, s) ==
    IF pattern = << >> THEN TRUE
    ELSE IF Len(pattern) >= 2 /\ pattern[2] = "*"
    THEN \/ StarredPrefixMatch(SubSeq(pattern, 3, Len(pattern)), s)
         \/ /\ s # << >>
            /\ AtomMatches(pattern[1], s[1])
            /\ StarredPrefixMatch(pattern, Tail(s))
    ELSE /\ s # << >>
         /\ AtomMatches(pattern[1], s[1])
         /\ StarredPrefixMatch(Tail(pattern), Tail(s))

(* { $regex: `^${pattern}` }: the pattern, read as a regular expression,  *)
(* matches at the start of s; nothing anchors its end.                    *)
RegexPrefixMatch(pattern, s) ==
    IF \E i \in 1..Len(pattern) : pattern[i] = "*"
    THEN StarredPrefixMatch(pattern, s)
    ELSE /\ Len(s) >= Len(pattern)
         /\ \A i \in 1..Len(pattern) : AtomMatches(pattern[i], s[i])

(* the positions at which pat occurs literally in s *)
Occurrences(s, pat) ==
    { i \in 1..(Len(s) - Len(pat) + 1) : SubSeq(s, i, i + Len(pat) - 1) = pat }

Min(S) == CHOOSE x \in S : \A y \in S : x <= y

(* String.prototype.replace(pat, rep) with a string pattern: the first    *)
(* literal occurrence is replaced, the string is returned as is when      *)
(* there is none.                                                          *)
ReplaceFirst(s, pat, rep) ==
    IF Occurrences(s, pat) = {} THEN s
    ELSE LET i == Min(Occurrences(s, pat))
         IN  SubSeq(s, 1, i - 1) \o rep \o SubSeq(s, i + Len(pat), Len(s))

----------------------------------------------------------------------------
(* Mongoose schemas and strict mode *)

FolderSchemaPaths ==
    {"name", "parentFolder", "user", "path", "isDeleted", "deletedAt"}

(* of the paths of imageSchema, the ones the routes of the model read *)
ImageSchemaPaths == {"name", "cloudinaryPublicId", "folder", "user"}

(* strict mode: a key that is no path of the schema is dropped from a     *)
(* document and from an update before it is sent to the store.            *)
StrictCast(paths, obj) == [k \in (DOMAIN obj) \cap paths |-> obj[k]]

(* $set of a cast update on a stored document *)
ApplyUpdate(paths, doc, update) ==
    LET set == StrictCast(paths, update)
    IN  [k \in (DOMAIN doc) \cup (DOMAIN set) |->
            IF k \in DOMAIN set THEN set[k] ELSE doc[k]]

(* A filter { isDeleted: want } on the Image model.  isDeleted is no path *)
(* of imageSchema: with strictQuery on the condition is removed from the  *)
(* filter, with strictQuery off it is sent as written and equality does   *)
(* not match a document without the field.                                *)
ImageDeletedIs(doc, want) ==
    \/ strictQuery
    \/ ("isDeleted" \in DOMAIN doc /\ doc["isDeleted"] = want)

(* the trash state a reader of an image document sees *)
ImageTrashed(doc) == "isDeleted" \in DOMAIN doc /\ doc["isDeleted"] = TRUE
ImageDeletedAt(doc) == IF "deletedAt" \in DOMAIN doc THEN doc["deletedAt"] ELSE Null

(* the index as it would be were it declared partial, over the folders    *)
(* that are not deleted                                                    *)
UniqueAmongActiveOnly(fs, id, doc) ==
    \E o \in DOMAIN fs :
        /\ o # id
        /\ fs[o]["isDeleted"] = FALSE
        /\ fs[o]["user"] = doc["user"]
        /\ fs[o]["parentFolder"] = doc["parentFolder"]
        /\ fs[o]["name"] = doc["name"]

(* folderSchema.index({ user, parentFolder, name }, { unique: true }):    *)
(* writing doc under id is rejected when another document holds the key.  *)
UniqueIndexViolated(fs, id, doc) ==
    \E o \in DOMAIN fs :
        /\ o # id
        /\ fs[o]["user"] = doc["user"]
        /\ fs[o]["parentFolder"] = doc["parentFolder"]
        /\ fs[o]["name"] = doc["name"]

----------------------------------------------------------------------------
(* Responses *)

(* The response of the request served last: the route, the status, the    *)
(* message and, for a request that succeeded, the document it was served  *)
(* for (the :id parameter; the new folder or image for a create/upload).  *)
Response(op, id, status, message) ==
    [op |-> op, status |-> status, message |-> message,
     id |-> IF status < 400 THEN id ELSE Null]

(* isDeleted / deletedAt of every stored document *)
(* a path the document does not hold reads as not trashed, no date *)
TrashFields(coll) ==
    [k \in DOMAIN coll |->
        << IF "isDeleted" \in DOMAIN coll[k] THEN coll[k]["isDeleted"] ELSE FALSE,
           IF "deletedAt" \in DOMAIN coll[k] THEN coll[k]["deletedAt"] ELSE Null >>]

Snapshot == [folders |-> TrashFields(folders), images |-> TrashFields(images)]

(* History of consecutive requests on one folder.  A successful soft     *)
(* delete of folder id starts it (stage "deleted"), pre being the trash  *)
(* fields before that soft delete and mid the trash fields after it.  A  *)
(* successful soft delete or restore of the same folder as the very next *)
(* request moves it on ("deletedAgain", "restored"), pre and mid then    *)
(* being those of the latest soft delete.  Any other request clears it.  *)
NoTrip == [stage |-> "none", id |-> Null, pre |-> << >>, mid |-> << >>]

TripAfterSoftDelete(id, pre, mid) ==
    [stage |-> IF trip["stage"] \in {"deleted", "deletedAgain"} /\ trip["id"] = id
               THEN "deletedAgain" ELSE "deleted",
     id |-> id, pre |-> pre, mid |-> mid]

TripAfterRestore(id) ==
    IF trip["stage"] \in {"deleted", "deletedAgain"} /\ trip["id"] = id
    THEN [trip EXCEPT !["stage"] = "restored"]
    ELSE NoTrip

Init ==
    /\ folders = << >>
    /\ images = << >>
    /\ cloud = {}
    /\ nextFolderId = 1
    /\ nextImageId = 1
    /\ now = 1
    /\ strictQuery \in BOOLEAN
    /\ resp = Response("none", Null, 0, "")
    /\ log = << >>
    /\ trip = NoTrip
    /\ calls = [c \in Calls |-> Idle]

(* const DAYS_TO_KEEP = 30; the clock of the model counts days where    *)
(* the retention matters, and Date.now() - DAYS_TO_KEEP * 86400000 is    *)
(* DAYS_TO_KEEP days back.                                                *)
DAYS_TO_KEEP == 30

(* the spans of days that pass at once: one day short of the retention, *)
(* the retention, one day more                                            *)
DaySpans == { DAYS_TO_KEEP - 1, DAYS_TO_KEEP, DAYS_TO_KEEP + 1 }

(* days pass between requests *)
PassDays(d) ==
    /\ now + d <= MaxDay
    /\ now' = now + d
    /\ UNCHANGED <<folders, images, cloud, nextFolderId, nextImageId,
                   strictQuery, resp, log, trip, calls>>

(* time passes between requests *)
Tick ==
    /\ now < MaxClock
    /\ now' = now + 1
    /\ UNCHANGED <<folders, images, cloud, nextFolderId, nextImageId,
                   strictQuery, resp, log, trip, calls>>

----------------------------------------------------------------------------
(* routes/folders.js *)

(* the query without its user condition *)
FolderOfAnyone(u, id) == id \in DOMAIN folders

(* Folder.findOne({ _id, user }) *)
OwnedFolder(u, id) == id \in DOMAIN folders /\ folders[id]["user"] = u

(* Folder.find({ user, path: { $regex: `^${pattern}` } }) as a set of ids *)
FoldersByPathRegex(fs, u, pattern) ==
    { f \in DOMAIN fs :
        fs[f]["user"] = u /\ RegexPrefixMatch(pattern, fs[f]["path"]) }

(* POST /api/folders *)
CreateFolder(u, rawName, parentFolderId) ==
    /\ trip' = NoTrip
    /\ log' = << >>
    /\ UNCHANGED <<images, cloud, nextImageId, now, strictQuery, calls>>
    /\ LET name == Trim(rawName)
           R(status, message) ==
               Response("createFolder", nextFolderId, status, message)
       IN  IF name = <<>>
           THEN /\ resp' = R(400, "Folder name is required")
                /\ UNCHANGED <<folders, nextFolderId>>
           ELSE IF parentFolderId # Null /\ ~OwnedFolder(u, parentFolderId)
           THEN /\ resp' = R(404, "Parent folder not found")
                /\ UNCHANGED <<folders, nextFolderId>>
           ELSE LET path == IF parentFolderId # Null
                            THEN JoinPath(folders[parentFolderId]["path"], name)
                            ELSE name
                    doc == StrictCast(FolderSchemaPaths,
                               [name |-> name, parentFolder |-> parentFolderId,
                                user |-> u, path |-> path,
                                isDeleted |-> FALSE, deletedAt |-> Null])
                IN  IF UniqueIndexViolated(folders, nextFolderId, doc)
                    THEN /\ resp' = R(500, "Server error creating folder")
                         /\ UNCHANGED <<folders, nextFolderId>>
                    ELSE /\ folders' = [f \in (DOMAIN folders) \cup {nextFolderId} |->
                                           IF f = nextFolderId THEN doc ELSE folders[f]]
                         /\ nextFolderId' = nextFolderId + 1
                         /\ resp' = R(201, "created")

(* the query without its isDeleted condition *)
OwnedFolderTrashedOrNot(u, id) == OwnedFolder(u, id)

(* Folder.findOne({ _id, user, isDeleted: { $ne: true } }) *)
ActiveOwnedFolder(u, id) == OwnedFolder(u, id) /\ folders[id]["isDeleted"] # TRUE

(* the duplicate query of the rename route *)
RenameDuplicate(u, id, name) ==
    \E o \in DOMAIN folders :
        /\ o # id
        /\ folders[o]["parentFolder"] = folders[id]["parentFolder"]
        /\ folders[o]["user"] = u
        /\ folders[o]["name"] = name
        /\ folders[o]["isDeleted"] # TRUE

(* the loop over the subfolders of the rename route: each document the   *)
(* regex query returned gets the first occurrence of oldPath replaced    *)
RewriteSubfolders(fs, u, oldPath, newPath) ==
    LET subfolders == FoldersByPathRegex(fs, u, oldPath \o <<"/">>)
    IN  [f \in DOMAIN fs |->
            IF f \in subfolders
            THEN [fs[f] EXCEPT !["path"] = ReplaceFirst(@, oldPath, newPath)]
            ELSE fs[f]]

(* PUT /api/folders/:folderId: the status and message the handler        *)
(* answers with and the Folder collection it leaves                       *)
RenameResult(u, folderId, rawName) ==
    LET name == Trim(rawName)
        R(status, message, fs) ==
            [status |-> status, message |-> message, folders |-> fs]
    IN  IF name = <<>>
        THEN R(400, "New folder name is required", folders)
        ELSE IF ~ActiveOwnedFolder(u, folderId)
        THEN R(404, "Folder not found or is in trash", folders)
        ELSE IF RenameDuplicate(u, folderId, name)
        THEN R(400, "A folder with this name already exists in the same location",
               folders)
        ELSE LET folder == folders[folderId]
                 oldPath == folder["path"]
                 parentId == folder["parentFolder"]
             IN  IF parentId # Null /\ parentId \notin DOMAIN folders
                 THEN \* Folder.findById returns null, parent.path throws
                      R(500, "Server error renaming folder", folders)
                 ELSE LET newPath == IF parentId # Null
                                     THEN JoinPath(folders[parentId]["path"], name)
                                     ELSE name
                          saved == [folder EXCEPT !["name"] = name,
                                                  !["path"] = newPath]
                      IN  IF UniqueIndexViolated(folders, folderId, saved)
                          THEN \* folder.save() rejects with a duplicate key
                               R(500, "Server error renaming folder", folders)
                          ELSE R(200, "Folder renamed successfully",
                                 RewriteSubfolders(
                                     [folders EXCEPT ![folderId] = saved],
                                     u, oldPath, newPath))

RenameFolder(u, folderId, rawName) ==
    /\ trip' = NoTrip
    /\ log' = << >>
    /\ UNCHANGED <<images, cloud, nextFolderId, nextImageId, now, strictQuery, calls>>
    /\ LET r == RenameResult(u, folderId, rawName)
       IN  /\ folders' = r["folders"]
           /\ resp' = Response("renameFolder", folderId, r["status"], r["message"])

(* the code unit of a character of the alphabet *)
CharCode(ch) ==
    CASE ch = " " -> 32
      [] ch = "*" -> 42
      [] ch = "." -> 46
      [] ch = "/" -> 47
      [] ch = "a" -> 97
      [] ch = "b" -> 98

(* the order of sort({ path: 1 }) on strings: the first differing        *)
(* character decides, a string sorts after its proper prefixes            *)
RECURSIVE StringBefore(_, _)
StringBefore(s, t) ==
    IF t = << >> THEN FALSE
    ELSE IF s = << >> THEN TRUE
    ELSE IF Head(s) # Head(t) THEN CharCode(Head(s)) < CharCode(Head(t))
    ELSE StringBefore(Tail(s), Tail(t))

(* documents ids of fs in the order of sort({ path: 1 }); documents with *)
(* the same path stay in _id order                                        *)
SortedByPath(fs, ids) ==
    LET pos(f) == Cardinality({ g \in ids :
                     \/ StringBefore(fs[g]["path"], fs[f]["path"])
                     \/ (fs[g]["path"] = fs[f]["path"] /\ g < f) }) + 1
    IN  [k \in 1..Cardinality(ids) |-> CHOOSE f \in ids : pos(f) = k]

(* GET /api/folders: Folder.find({ user, isDeleted: { $ne: true } })     *)
(* .sort({ path: 1 }), as the sequence of the _ids of the documents      *)
ListFolders(u) ==
    SortedByPath(folders,
        { f \in DOMAIN folders :
            folders[f]["user"] = u /\ folders[f]["isDeleted"] # TRUE })

(* the ids the soft and hard delete routes collect: Folder.find({ user,   *)
(* path: { $regex: `^${folder.path}` } })                                 *)
FoldersToDelete(u, folderId) ==
    FoldersByPathRegex(folders, u, folders[folderId]["path"])

(* an updateMany that writes the isDeleted of the update and leaves the  *)
(* date out                                                               *)
UpdateFoldersFlagOnly(fs, ids, update) ==
    [f \in DOMAIN fs |->
        IF f \in ids THEN [fs[f] EXCEPT !["isDeleted"] = update["isDeleted"]]
        ELSE fs[f]]

(* Folder.updateMany({ _id: { $in: ids } }, update) *)
UpdateFolders(fs, ids, update) ==
    [f \in DOMAIN fs |->
        IF f \in ids THEN ApplyUpdate(FolderSchemaPaths, fs[f], update) ELSE fs[f]]

(* Image.updateMany(filter, update), ids being the documents the filter  *)
(* selects                                                                *)
UpdateImages(is, ids, update) ==
    [i \in DOMAIN is |->
        IF i \in ids THEN ApplyUpdate(ImageSchemaPaths, is[i], update) ELSE is[i]]

(* Image.find({ folder: { $in: folderIds } }) *)
ImagesInFolders(folderIds) == { i \in DOMAIN images : images[i]["folder"] \in folderIds }

(* DELETE /api/folders/soft/:folderId *)
SoftDeleteFolder(u, folderId) ==
    /\ log' = << >>
    /\ UNCHANGED <<cloud, nextFolderId, nextImageId, now, strictQuery, calls>>
    /\ LET R(status, message) == Response("softDeleteFolder", folderId, status, message)
       IN  IF ~OwnedFolder(u, folderId)
           THEN /\ resp' = R(404, "Folder not found")
                /\ trip' = NoTrip
                /\ UNCHANGED <<folders, images>>
           ELSE LET folderIds == FoldersToDelete(u, folderId)
                    update == [isDeleted |-> TRUE, deletedAt |-> now]
                IN  /\ folders' = UpdateFolders(folders, folderIds, update)
                    /\ images' = UpdateImages(images, ImagesInFolders(folderIds), update)
                    /\ resp' = R(200, "Folder and contents moved to trash")
                    /\ trip' = TripAfterSoftDelete(folderId, Snapshot,
                                   [folders |-> TrashFields(folders'),
                                    images |-> TrashFields(images')])

(* DELETE /api/folders/soft/:folderId when the store rejects one of the  *)
(* two updateMany of the handler: the writes before it stay, the ones    *)
(* after it are not made, the catch answers 500.                          *)
SoftDeleteFolderStoreFails(u, folderId) ==
    /\ log' = << >>
    /\ trip' = NoTrip
    /\ UNCHANGED <<cloud, nextFolderId, nextImageId, now, strictQuery, calls>>
    /\ LET R(status, message) == Response("softDeleteFolder", folderId, status, message)
       IN  IF ~OwnedFolder(u, folderId)
           THEN /\ resp' = R(404, "Folder not found")
                /\ UNCHANGED <<folders, images>>
           ELSE LET folderIds == FoldersToDelete(u, folderId)
                    update == [isDeleted |-> TRUE, deletedAt |-> now]
                IN  /\ resp' = R(500, "Server error deleting folder")
                    /\ UNCHANGED images
                    /\ \E rejected \in {"Folder.updateMany", "Image.updateMany"} :
                          folders' = IF rejected = "Folder.updateMany"
                                     THEN folders
                                     ELSE UpdateFolders(folders, folderIds, update)

(* the documents left after deleteMany / deleteOne of ids *)
Remove(coll, ids) == [k \in (DOMAIN coll) \ ids |-> coll[k]]

PublicIds(ids) == { images[i]["cloudinaryPublicId"] : i \in ids }

(* One entry of the log: a cloudinary.uploader.destroy call for a public  *)
(* id with its outcome, or a deleteMany / deleteOne of the records ids.   *)
Event(kind, ids, ok) == [kind |-> kind, ids |-> ids, ok |-> ok]

(* the documents a find() returns, in _id order *)
RECURSIVE SortedSeq(_)
SortedSeq(S) ==
    IF S = {} THEN << >>
    ELSE LET m == Min(S) IN <<m>> \o SortedSeq(S \ {m})

(* img.cloudinaryPublicId of the images a loop goes through *)
PublicIdSeq(ids) ==
    LET imgs == SortedSeq(ids)
    IN  [k \in 1..Len(imgs) |-> images[imgs[k]]["cloudinaryPublicId"]]

(* a loop that leaves the images after a failed destroy alone and goes on *)
(* to the statements after the loop                                       *)
CaughtDestroysSkippingRest(pids) ==
    { [events |-> [i \in 1..(IF k = 0 THEN Len(pids) ELSE k) |->
                      Event("destroy", {pids[i]}, i # k)],
       thrown |-> FALSE] : k \in 0..Len(pids) }

(* for (img of images) { try { await destroy(img.cloudinaryPublicId) }   *)
(* catch { log } }: every call is made, each succeeds or fails, nothing  *)
(* is thrown out of the loop.                                             *)
CaughtDestroys(pids) ==
    { [events |-> [i \in 1..Len(pids) |-> Event("destroy", {pids[i]}, oks[i])],
       thrown |-> FALSE] : oks \in [1..Len(pids) -> BOOLEAN] }

(* for (img of images) { await destroy(img.cloudinaryPublicId) }: the    *)
(* first call that fails (the k-th) throws out of the loop.               *)
UncaughtDestroys(pids) ==
    { [events |-> [i \in 1..(IF k = 0 THEN Len(pids) ELSE k) |->
                      Event("destroy", {pids[i]}, i # k)],
       thrown |-> k # 0] : k \in 0..Len(pids) }

(* the public ids whose payload the calls of a run removed *)
Destroyed(events) ==
    UNION { events[i]["ids"] : i \in { j \in 1..Len(events) : events[j]["ok"] } }

(* DELETE /api/folders/hard/:folderId.  Every cloudinary.uploader.destroy *)
(* is in its own try/catch; whatever else throws ends in the catch of the *)
(* handler.                                                                *)
HardDeleteFolder(u, folderId) ==
    /\ trip' = NoTrip
    /\ UNCHANGED <<nextFolderId, nextImageId, now, strictQuery, calls>>
    /\ LET R(status, message) == Response("hardDeleteFolder", folderId, status, message)
       IN  IF ~OwnedFolder(u, folderId)
           THEN /\ resp' = R(404, "Folder not found")
                /\ log' = << >>
                /\ UNCHANGED <<folders, images, cloud>>
           ELSE LET folderIds == FoldersToDelete(u, folderId)
                    imagesToDelete == ImagesInFolders(folderIds)
                IN  \E run \in CaughtDestroys(PublicIdSeq(imagesToDelete)) :
                      /\ cloud' = cloud \ Destroyed(run["events"])
                      /\ IF run["thrown"]
                         THEN /\ log' = run["events"]
                              /\ resp' = R(500, "Server error deleting folder")
                              /\ UNCHANGED <<folders, images>>
                         ELSE /\ images' = Remove(images, imagesToDelete)
                              /\ folders' = Remove(folders, folderIds)
                              /\ log' = run["events"] \o
                                        << Event("deleteImages", imagesToDelete, TRUE),
                                           Event("deleteFolders", folderIds, TRUE) >>
                              /\ resp' = R(200, "Folder, subfolders, and all images permanently deleted")

----------------------------------------------------------------------------
(* routes/trash.js *)

(* the query without its user condition *)
TrashedFolderOfAnyone(u, id) == id \in DOMAIN folders /\ folders[id]["isDeleted"] = TRUE

(* Folder.findOne({ _id, user, isDeleted: true }) *)
TrashedOwnedFolder(u, id) == OwnedFolder(u, id) /\ folders[id]["isDeleted"] = TRUE

(* Image.findOne({ _id, user, isDeleted: want }) *)
OwnedImage(u, id, want) ==
    /\ id \in DOMAIN images
    /\ images[id]["user"] = u
    /\ ImageDeletedIs(images[id], want)

(* the filter { folder: id, user, isDeleted: true } of the restore route *)
TrashedImagesOf(u, folderId) ==
    { i \in DOMAIN images :
        /\ images[i]["folder"] = folderId
        /\ images[i]["user"] = u
        /\ ImageDeletedIs(images[i], TRUE) }

(* the update with deletedAt left out *)
RestoreUpdateKeepingDate == [isDeleted |-> FALSE]

(* the update of both restore routes: { isDeleted: false, deletedAt: null } *)
RestoreUpdate == [isDeleted |-> FALSE, deletedAt |-> Null]

(* GET /api/trash: Folder.find({ user, isDeleted: true }) and            *)
(* Image.find({ user, isDeleted: true }), as the documents by _id         *)
ListTrash(u) ==
    LET trashedFolders == { f \in DOMAIN folders :
                              folders[f]["user"] = u /\ folders[f]["isDeleted"] = TRUE }
        trashedImages == { i \in DOMAIN images :
                             images[i]["user"] = u /\ ImageDeletedIs(images[i], TRUE) }
    IN  [folders |-> [f \in trashedFolders |-> folders[f]],
         images |-> [i \in trashedImages |-> images[i]]]

(* POST /api/trash/restore/folder/:id *)
RestoreFolder(u, id) ==
    /\ log' = << >>
    /\ UNCHANGED <<cloud, nextFolderId, nextImageId, now, strictQuery, calls>>
    /\ LET R(status, message) == Response("restoreFolder", id, status, message)
       IN  IF ~TrashedOwnedFolder(u, id)
           THEN /\ resp' = R(404, "Folder not found or not in trash")
                /\ trip' = NoTrip
                /\ UNCHANGED <<folders, images>>
           ELSE /\ trip' = TripAfterRestore(id)
                /\ folders' = UpdateFolders(folders, {id}, RestoreUpdate)
                /\ images' = UpdateImages(images, TrashedImagesOf(u, id), RestoreUpdate)
                /\ resp' = R(200, "folder restored successfully")

(* POST /api/trash/restore/image/:id *)
RestoreImage(u, id) ==
    /\ trip' = NoTrip
    /\ log' = << >>
    /\ UNCHANGED <<folders, cloud, nextFolderId, nextImageId, now, strictQuery, calls>>
    /\ LET R(status, message) == Response("restoreImage", id, status, message)
       IN  IF ~OwnedImage(u, id, TRUE)
           THEN /\ resp' = R(404, "Image not found or not in trash")
                /\ UNCHANGED images
           ELSE /\ images' = UpdateImages(images, {id}, RestoreUpdate)
                /\ resp' = R(200, "image restored successfully")

(* DELETE /api/trash/permanent/image/:id.  The destroy call is not caught *)
(* here: when it throws the route answers 500 and the record stays.       *)
PermanentDeleteImage(u, id) ==
    /\ trip' = NoTrip
    /\ UNCHANGED <<folders, nextFolderId, nextImageId, now, strictQuery, calls>>
    /\ LET R(status, message) == Response("permanentDeleteImage", id, status, message)
       IN  IF ~OwnedImage(u, id, TRUE)
           THEN /\ resp' = R(404, "Image not found or not in trash")
                /\ log' = << >>
                /\ UNCHANGED <<images, cloud>>
           ELSE \E run \in UncaughtDestroys(PublicIdSeq({id})) :
                  /\ cloud' = cloud \ Destroyed(run["events"])
                  /\ IF run["thrown"]
                     THEN /\ log' = run["events"]
                          /\ resp' = R(500, "Error permanently deleting item")
                          /\ UNCHANGED images
                     ELSE /\ images' = Remove(images, {id})
                          /\ log' = run["events"] \o << Event("deleteImages", {id}, TRUE) >>
                          /\ resp' = R(200, "image permanently deleted")

(* Image.find({ folder: id, user }) in the order the store returns it *)
ImagesOf(u, folderId) ==
    { i \in DOMAIN images : images[i]["folder"] = folderId /\ images[i]["user"] = u }

(* DELETE /api/trash/permanent/folder/:id.  The images are destroyed one  *)
(* after the other, in _id order, with no try/catch: the first failing    *)
(* destroy ends the request with 500, the ones before it are gone from    *)
(* the object store and no record is removed.                             *)
PermanentDeleteFolder(u, id) ==
    /\ trip' = NoTrip
    /\ UNCHANGED <<nextFolderId, nextImageId, now, strictQuery, calls>>
    /\ LET R(status, message) == Response("permanentDeleteFolder", id, status, message)
       IN  IF ~TrashedOwnedFolder(u, id)
           THEN /\ resp' = R(404, "Folder not found or not in trash")
                /\ log' = << >>
                /\ UNCHANGED <<folders, images, cloud>>
           ELSE LET imgs == ImagesOf(u, id)
                IN  \E run \in UncaughtDestroys(PublicIdSeq(imgs)) :
                      /\ cloud' = cloud \ Destroyed(run["events"])
                      /\ IF run["thrown"]
                         THEN /\ log' = run["events"]
                              /\ resp' = R(500, "Error permanently deleting item")
                              /\ UNCHANGED <<folders, images>>
                         ELSE /\ images' = Remove(images, imgs)
                              /\ folders' = Remove(folders, {id})
                              /\ log' = run["events"] \o
                                        << Event("deleteImages", imgs, TRUE),
                                           Event("deleteFolders", {id}, TRUE) >>
                              /\ resp' = R(200, "folder permanently deleted")

(* A filter { deletedAt: { $lt: cutoffDate } } on the Image model:       *)
(* deletedAt is no path of imageSchema, so the condition is removed with *)
(* strictQuery on and matches no document without a date otherwise.      *)
ImageDeletedBefore(doc, cutoffDate) ==
    \/ strictQuery
    \/ ( /\ "deletedAt" \in DOMAIN doc
         /\ doc["deletedAt"] # Null
         /\ doc["deletedAt"] < cutoffDate )

(* cleanupOldTrash(): the images and folders of every user that the two  *)
(* find() calls return are purged.  The destroy calls have no try/catch  *)
(* of their own; the one around the whole function logs what is thrown   *)
(* and returns.  The function answers no request: the response records   *)
(* which of its two log lines it wrote.                                   *)
CleanupOldTrash ==
    /\ trip' = NoTrip
    /\ UNCHANGED <<nextFolderId, nextImageId, now, strictQuery, calls>>
    /\ LET cutoffDate == now - DAYS_TO_KEEP
           oldImages == { i \in DOMAIN images :
                            /\ ImageDeletedIs(images[i], TRUE)
                            /\ ImageDeletedBefore(images[i], cutoffDate) }
           oldFolders == { f \in DOMAIN folders :
                             /\ folders[f]["isDeleted"] = TRUE
                             /\ folders[f]["deletedAt"] # Null
                             /\ folders[f]["deletedAt"] < cutoffDate }
       IN  \E run \in UncaughtDestroys(PublicIdSeq(oldImages)) :
             /\ cloud' = cloud \ Destroyed(run["events"])
             /\ IF run["thrown"]
                THEN /\ log' = run["events"]
                     /\ resp' = Response("cleanupOldTrash", Null, 0, "Auto Cleanup Error")
                     /\ UNCHANGED <<folders, images>>
                ELSE /\ images' = Remove(images, oldImages)
                     /\ folders' = Remove(folders, oldFolders)
                     /\ log' = run["events"] \o
                               << Event("deleteImages", oldImages, TRUE),
                                  Event("deleteFolders", oldFolders, TRUE) >>
                     /\ resp' = Response("cleanupOldTrash", Null, 0, "Auto-cleanup")

----------------------------------------------------------------------------
(* the image routes *)

(* req.file.originalname.split('.')[0]: the files of the model are all  *)
(* uploaded under one name                                                *)
UploadName == <<"a">>

(* POST /api/images/folder/:folderId.  The object store write either     *)
(* succeeds, and then the document is saved, or rejects, and then the    *)
(* route answers 500.  The public id the store returns is fresh.         *)
UploadImage(u, folderId) ==
    /\ trip' = NoTrip
    /\ log' = << >>
    /\ UNCHANGED <<folders, nextFolderId, now, strictQuery, calls>>
    /\ LET R(status, message) == Response("uploadImage", nextImageId, status, message)
       IN  IF ~(OwnedFolder(u, folderId) /\ folders[folderId]["isDeleted"] = FALSE)
           THEN /\ resp' = R(404, "Folder not found")
                /\ UNCHANGED <<images, cloud, nextImageId>>
           ELSE \E stored \in BOOLEAN :
                  IF stored
                  THEN LET doc == StrictCast(ImageSchemaPaths,
                                     [name |-> UploadName,
                                      cloudinaryPublicId |-> nextImageId,
                                      folder |-> folderId, user |-> u,
                                      isDeleted |-> FALSE])
                       IN  /\ cloud' = cloud \cup {nextImageId}
                           /\ images' = [i \in (DOMAIN images) \cup {nextImageId} |->
                                            IF i = nextImageId THEN doc ELSE images[i]]
                           /\ nextImageId' = nextImageId + 1
                           /\ resp' = R(201, "Image uploaded successfully")
                  ELSE /\ resp' = R(500, "Server error uploading image")
                       /\ UNCHANGED <<images, cloud, nextImageId>>

(* DELETE /api/images/id/:imageId/soft.  image.isDeleted and              *)
(* image.deletedAt are assigned on the document and save() writes the     *)
(* paths of the schema.                                                   *)
SoftDeleteImage(u, imageId) ==
    /\ trip' = NoTrip
    /\ log' = << >>
    /\ UNCHANGED <<folders, cloud, nextFolderId, nextImageId, now, strictQuery, calls>>
    /\ LET R(status, message) == Response("softDeleteImage", imageId, status, message)
       IN  IF ~OwnedImage(u, imageId, FALSE)
           THEN /\ resp' = R(404, "Image not found")
                /\ UNCHANGED images
           ELSE /\ images' = UpdateImages(images, {imageId},
                                 [isDeleted |-> TRUE, deletedAt |-> now])
                /\ resp' = R(200, "Image moved to trash")

(* GET /api/images/folder/:folderId: Image.find({ folder, user,          *)
(* isDeleted: false }) as the documents by _id                            *)
ListImages(u, folderId) ==
    LET found == { i \in DOMAIN images :
                     /\ images[i]["folder"] = folderId
                     /\ images[i]["user"] = u
                     /\ ImageDeletedIs(images[i], FALSE) }
    IN  [i \in found |-> images[i]]

(* PUT /api/images/id/:imageId *)
RenameImage(u, imageId, rawName) ==
    /\ log' = << >>
    /\ trip' = NoTrip
    /\ UNCHANGED <<folders, cloud, nextFolderId, nextImageId, now, strictQuery, calls>>
    /\ LET R(status, message) == Response("renameImage", imageId, status, message)
       IN  IF Trim(rawName) = << >>
           THEN /\ resp' = R(400, "New image name is required")
                /\ UNCHANGED images
           ELSE IF ~OwnedImage(u, imageId, FALSE)
           THEN /\ resp' = R(404, "Image not found or is in trash")
                /\ UNCHANGED images
           ELSE /\ images' = [images EXCEPT ![imageId]["name"] = Trim(rawName)]
                /\ resp' = R(200, "Image renamed successfully")

----------------------------------------------------------------------------
(* Handlers served side by side.  Every await of a handler on the store  *)
(* is a step of its own: between two of them the store serves the steps  *)
(* of the other requests.  What a handler read stays in its call as it   *)
(* was read.                                                              *)

(* the handler of call c stands at step at of route op *)
At(c, op, at) == calls[c]["op"] = op /\ calls[c]["at"] = at

(* the steps below change the collections, the calls and the response *)
StepFrame ==
    /\ trip' = NoTrip
    /\ log' = << >>
    /\ UNCHANGED <<now, strictQuery>>

(* PUT /api/folders/:folderId, up to Folder.findOne({ _id, user,         *)
(* isDeleted: { $ne: true } })                                            *)
RenameFolderFind(c, u, folderId, rawName) ==
    /\ calls[c] = Idle
    /\ StepFrame
    /\ UNCHANGED <<folders, images, cloud, nextFolderId, nextImageId>>
    /\ LET name == Trim(rawName)
           R(status, message) == Response("renameFolder", folderId, status, message)
       IN  IF name = << >>
           THEN resp' = R(400, "New folder name is required") /\ UNCHANGED calls
           ELSE IF ~ActiveOwnedFolder(u, folderId)
           THEN resp' = R(404, "Folder not found or is in trash") /\ UNCHANGED calls
           ELSE /\ UNCHANGED resp
                /\ calls' = [calls EXCEPT ![c] =
                      [op |-> "renameFolder", at |-> "duplicate", user |-> u,
                       id |-> folderId, name |-> name, folder |-> folders[folderId],
                       newPath |-> << >>, subfolders |-> << >>]]

(* the duplicate query, with folder.parentFolder as the handler read it *)
DuplicateUnder(u, id, parent, name) ==
    \E o \in DOMAIN folders :
        /\ o # id
        /\ folders[o]["parentFolder"] = parent
        /\ folders[o]["user"] = u
        /\ folders[o]["name"] = name
        /\ folders[o]["isDeleted"] # TRUE

(* Folder.findOne(duplicate) *)
RenameFolderDuplicate(c) ==
    /\ At(c, "renameFolder", "duplicate")
    /\ StepFrame
    /\ UNCHANGED <<folders, images, cloud, nextFolderId, nextImageId>>
    /\ LET call == calls[c]
           parent == call["folder"]["parentFolder"]
       IN  IF DuplicateUnder(call["user"], call["id"], parent, call["name"])
           THEN /\ resp' = Response("renameFolder", call["id"], 400,
                      "A folder with this name already exists in the same location")
                /\ calls' = [calls EXCEPT ![c] = Idle]
           ELSE /\ UNCHANGED resp
                /\ calls' = [calls EXCEPT ![c] =
                      IF parent # Null
                      THEN [call EXCEPT !["at"] = "parent"]
                      ELSE [call EXCEPT !["at"] = "save", !["newPath"] = call["name"]]]

(* Folder.findById(folder.parentFolder) and the new path *)
RenameFolderParent(c) ==
    /\ At(c, "renameFolder", "parent")
    /\ StepFrame
    /\ UNCHANGED <<folders, images, cloud, nextFolderId, nextImageId>>
    /\ LET call == calls[c]
           parent == call["folder"]["parentFolder"]
       IN  IF parent \notin DOMAIN folders
           THEN \* findById returns null, parent.path throws
                /\ resp' = Response("renameFolder", call["id"], 500,
                               "Server error renaming folder")
                /\ calls' = [calls EXCEPT ![c] = Idle]
           ELSE /\ UNCHANGED resp
                /\ calls' = [calls EXCEPT ![c] =
                      [call EXCEPT !["at"] = "save",
                                   !["newPath"] = JoinPath(folders[parent]["path"],
                                                           call["name"])]]

(* folder.save(): name and path, the paths the handler assigned, are     *)
(* written to the stored document                                         *)
RenameFolderSave(c) ==
    /\ At(c, "renameFolder", "save")
    /\ StepFrame
    /\ UNCHANGED <<images, cloud, nextFolderId, nextImageId>>
    /\ LET call == calls[c]
           id == call["id"]
           failed == Response("renameFolder", id, 500, "Server error renaming folder")
       IN  IF id \notin DOMAIN folders
           THEN \* no document to update: save() rejects
                /\ resp' = failed
                /\ calls' = [calls EXCEPT ![c] = Idle]
                /\ UNCHANGED folders
           ELSE LET saved == [folders[id] EXCEPT !["name"] = call["name"],
                                                 !["path"] = call["newPath"]]
                IN  IF UniqueIndexViolated(folders, id, saved)
                    THEN /\ resp' = failed
                         /\ calls' = [calls EXCEPT ![c] = Idle]
                         /\ UNCHANGED folders
                    ELSE /\ folders' = [folders EXCEPT ![id] = saved]
                         /\ UNCHANGED resp
                         /\ calls' = [calls EXCEPT ![c]["at"] = "subfolders"]

(* Folder.find({ user, path: { $regex: `^${oldPath}/` } }); with no      *)
(* subfolder the handler answers                                          *)
RenameFolderSubfolders(c) ==
    /\ At(c, "renameFolder", "subfolders")
    /\ StepFrame
    /\ UNCHANGED <<folders, images, cloud, nextFolderId, nextImageId>>
    /\ LET call == calls[c]
           subfolders == FoldersByPathRegex(folders, call["user"],
                             call["folder"]["path"] \o <<"/">>)
       IN  IF subfolders = {}
           THEN /\ resp' = Response("renameFolder", call["id"], 200,
                               "Folder renamed successfully")
                /\ calls' = [calls EXCEPT ![c] = Idle]
           ELSE /\ UNCHANGED resp
                /\ calls' = [calls EXCEPT ![c] =
                      [call EXCEPT !["at"] = "rewrite",
                                   !["subfolders"] =
                                       [f \in subfolders |-> folders[f]["path"]]]]

(* one turn of the loop: sub.path = sub.path.replace(oldPath,            *)
(* folder.path); sub.save().  The documents are gone through in _id      *)
(* order; after the last one the handler answers.                         *)
RenameFolderRewrite(c) ==
    /\ At(c, "renameFolder", "rewrite")
    /\ StepFrame
    /\ UNCHANGED <<images, cloud, nextFolderId, nextImageId>>
    /\ LET call == calls[c]
           sub == Min(DOMAIN call["subfolders"])
           rest == (DOMAIN call["subfolders"]) \ {sub}
           path == ReplaceFirst(call["subfolders"][sub], call["folder"]["path"],
                                call["newPath"])
       IN  IF sub \notin DOMAIN folders
           THEN \* no document to update: save() rejects
                /\ resp' = Response("renameFolder", call["id"], 500,
                               "Server error renaming folder")
                /\ calls' = [calls EXCEPT ![c] = Idle]
                /\ UNCHANGED folders
           ELSE /\ folders' = [folders EXCEPT ![sub]["path"] = path]
                /\ IF rest = {}
                   THEN /\ resp' = Response("renameFolder", call["id"], 200,
                                       "Folder renamed successfully")
                        /\ calls' = [calls EXCEPT ![c] = Idle]
                   ELSE /\ UNCHANGED resp
                        /\ calls' = [calls EXCEPT ![c]["subfolders"] =
                                        [f \in rest |-> call["subfolders"][f]]]

(* POST /api/folders, up to Folder.findOne({ _id: parentFolderId, user }) *)
(* and the path computed from what it returned                            *)
CreateFolderFind(c, u, rawName, parentFolderId) ==
    /\ calls[c] = Idle
    /\ StepFrame
    /\ UNCHANGED <<folders, images, cloud, nextFolderId, nextImageId>>
    /\ LET name == Trim(rawName)
           R(status, message) == Response("createFolder", Null, status, message)
       IN  IF name = << >>
           THEN resp' = R(400, "Folder name is required") /\ UNCHANGED calls
           ELSE IF parentFolderId # Null /\ ~OwnedFolder(u, parentFolderId)
           THEN resp' = R(404, "Parent folder not found") /\ UNCHANGED calls
           ELSE /\ UNCHANGED resp
                /\ calls' = [calls EXCEPT ![c] =
                      [op |-> "createFolder", at |-> "save", user |-> u,
                       name |-> name, parentFolder |-> parentFolderId,
                       path |-> IF parentFolderId # Null
                                THEN JoinPath(folders[parentFolderId]["path"], name)
                                ELSE name]]

(* folder.save() of the new document *)
CreateFolderSave(c) ==
    /\ At(c, "createFolder", "save")
    /\ StepFrame
    /\ UNCHANGED <<images, cloud, nextImageId>>
    /\ calls' = [calls EXCEPT ![c] = Idle]
    /\ LET call == calls[c]
           doc == StrictCast(FolderSchemaPaths,
                      [name |-> call["name"], parentFolder |-> call["parentFolder"],
                       user |-> call["user"], path |-> call["path"],
                       isDeleted |-> FALSE, deletedAt |-> Null])
       IN  IF UniqueIndexViolated(folders, nextFolderId, doc)
           THEN /\ resp' = Response("createFolder", Null, 500,
                               "Server error creating folder")
                /\ UNCHANGED <<folders, nextFolderId>>
           ELSE /\ folders' = [f \in (DOMAIN folders) \cup {nextFolderId} |->
                                  IF f = nextFolderId THEN doc ELSE folders[f]]
                /\ nextFolderId' = nextFolderId + 1
                /\ resp' = Response("createFolder", nextFolderId, 201, "created")

(* POST /api/images/folder/:folderId, up to Folder.findOne({ _id, user,  *)
(* isDeleted: false })                                                    *)
UploadImageFind(c, u, folderId) ==
    /\ calls[c] = Idle
    /\ StepFrame
    /\ UNCHANGED <<folders, images, cloud, nextFolderId, nextImageId>>
    /\ IF ~(OwnedFolder(u, folderId) /\ folders[folderId]["isDeleted"] = FALSE)
       THEN /\ resp' = Response("uploadImage", Null, 404, "Folder not found")
            /\ UNCHANGED calls
       ELSE /\ UNCHANGED resp
            /\ calls' = [calls EXCEPT ![c] =
                  [op |-> "uploadImage", at |-> "store", user |-> u,
                   folder |-> folderId, publicId |-> Null]]

(* await streamUpload(): the object store takes the payload under a      *)
(* fresh public id, or rejects                                            *)
UploadImageStore(c) ==
    /\ At(c, "uploadImage", "store")
    /\ StepFrame
    /\ UNCHANGED <<folders, images, nextFolderId>>
    /\ \E stored \in BOOLEAN :
          IF stored
          THEN /\ cloud' = cloud \cup {nextImageId}
               /\ nextImageId' = nextImageId + 1
               /\ UNCHANGED resp
               /\ calls' = [calls EXCEPT ![c]["at"] = "save",
                                         ![c]["publicId"] = nextImageId]
          ELSE /\ resp' = Response("uploadImage", Null, 500,
                              "Server error uploading image")
               /\ calls' = [calls EXCEPT ![c] = Idle]
               /\ UNCHANGED <<cloud, nextImageId>>

(* newImage.save(): the document is stored with folder: folder._id as    *)
(* the handler read it; the _id of the model is the public id             *)
UploadImageSave(c) ==
    /\ At(c, "uploadImage", "save")
    /\ StepFrame
    /\ UNCHANGED <<folders, cloud, nextFolderId, nextImageId>>
    /\ LET call == calls[c]
           id == call["publicId"]
           doc == StrictCast(ImageSchemaPaths,
                      [name |-> UploadName, cloudinaryPublicId |-> id,
                       folder |-> call["folder"], user |-> call["user"],
                       isDeleted |-> FALSE])
       IN  /\ images' = [i \in (DOMAIN images) \cup {id} |->
                            IF i = id THEN doc ELSE images[i]]
           /\ resp' = Response("uploadImage", id, 201, "Image uploaded successfully")
           /\ calls' = [calls EXCEPT ![c] = Idle]

(* how many of the calls stand at step at of route op *)
Standing(op, at) == Cardinality({ c \in Calls : At(c, op, at) })

----------------------------------------------------------------------------
(* The model stops creating documents at its bounds. *)
CreateFolderWithin(max, u, rawName, parentFolderId) ==
    nextFolderId <= max /\ CreateFolder(u, rawName, parentFolderId)

UploadImageWithin(max, u, folderId) ==
    nextImageId <= max /\ UploadImage(u, folderId)

(* Requests arrive one at a time, from any user, for any id and name,    *)
(* and time passes between them.                                          *)
Next ==
    \/ Tick
    \/ \E u \in Users, n \in NameInputs, p \in {Null} \cup FolderIds :
          CreateFolderWithin(MaxFolders, u, n, p)
    \/ \E u \in Users, f \in FolderIds, n \in NameInputs : RenameFolder(u, f, n)
    \/ \E u \in Users, f \in FolderIds : SoftDeleteFolder(u, f)
    \/ \E u \in Users, f \in FolderIds : HardDeleteFolder(u, f)
    \/ \E u \in Users, f \in FolderIds : RestoreFolder(u, f)
    \/ \E u \in Users, i \in ImageIds : RestoreImage(u, i)
    \/ \E u \in Users, f \in FolderIds : PermanentDeleteFolder(u, f)
    \/ \E u \in Users, i \in ImageIds : PermanentDeleteImage(u, i)
    \/ \E u \in Users, f \in FolderIds : UploadImageWithin(MaxImages, u, f)
    \/ \E u \in Users, i \in ImageIds : SoftDeleteImage(u, i)

Spec == Init /\ [][Next]_vars

(* Creating and renaming folders only, up to a tree of three. *)
NextPaths ==
    \/ \E u \in Users, n \in NameInputs, p \in {Null} \cup TreeFolderIds :
          CreateFolderWithin(MaxTreeFolders, u, n, p)
    \/ \E u \in Users, f \in TreeFolderIds, n \in NameInputs : RenameFolder(u, f, n)

SpecPaths == Init /\ [][NextPaths]_vars

(* Creating, trashing and renaming folders, up to a tree of three. *)
NextRenames ==
    \/ \E u \in Users, n \in NameInputs, p \in {Null} \cup TreeFolderIds :
          CreateFolderWithin(MaxTreeFolders, u, n, p)
    \/ \E u \in Users, f \in TreeFolderIds : SoftDeleteFolder(u, f)
    \/ \E u \in Users, f \in TreeFolderIds, n \in NameInputs : RenameFolder(u, f, n)

SpecRenames == Init /\ [][NextRenames]_vars

(* Creating, renaming, trashing and restoring folders: no record is ever *)
(* removed.                                                               *)
NextHierarchy ==
    \/ \E u \in Users, n \in NameInputs, p \in {Null} \cup FolderIds :
          CreateFolderWithin(MaxFolders, u, n, p)
    \/ \E u \in Users, f \in FolderIds, n \in NameInputs : RenameFolder(u, f, n)
    \/ \E u \in Users, f \in FolderIds : SoftDeleteFolder(u, f)
    \/ \E u \in Users, f \in FolderIds : RestoreFolder(u, f)

SpecHierarchy == Init /\ [][NextHierarchy]_vars

(* Every request on folders: no image is ever uploaded. *)
NextFolders ==
    \/ \E u \in Users, n \in NameInputs, p \in {Null} \cup FolderIds :
          CreateFolderWithin(MaxFolders, u, n, p)
    \/ \E u \in Users, f \in FolderIds, n \in NameInputs : RenameFolder(u, f, n)
    \/ \E u \in Users, f \in FolderIds : SoftDeleteFolder(u, f)
    \/ \E u \in Users, f \in FolderIds : HardDeleteFolder(u, f)
    \/ \E u \in Users, f \in FolderIds : RestoreFolder(u, f)
    \/ \E u \in Users, f \in FolderIds : PermanentDeleteFolder(u, f)

SpecFolders == Init /\ [][NextFolders]_vars

(* Trashing and restoring folders that hold images, without renames. *)
TrashNames == { <<"a">>, <<"a", "b">> }

NextTrash ==
    \/ \E u \in Users, n \in TrashNames, p \in {Null} \cup FolderIds :
          CreateFolderWithin(MaxFolders, u, n, p)
    \/ \E u \in Users, f \in FolderIds : UploadImageWithin(MaxImages, u, f)
    \/ \E u \in Users, f \in FolderIds : SoftDeleteFolder(u, f)
    \/ \E u \in Users, f \in FolderIds : RestoreFolder(u, f)
    \/ \E u \in Users, i \in ImageIds : SoftDeleteImage(u, i)
    \/ \E u \in Users, i \in ImageIds : RestoreImage(u, i)

SpecTrash == Init /\ [][NextTrash]_vars

(* The same for one user, with time passing between the requests. *)
NextClock ==
    \/ Tick
    \/ \E n \in TrashNames, p \in {Null} \cup FolderIds :
          CreateFolderWithin(MaxFolders, "u1", n, p)
    \/ \E f \in FolderIds : UploadImageWithin(MaxImages, "u1", f)
    \/ \E f \in FolderIds : SoftDeleteFolder("u1", f)
    \/ \E f \in FolderIds : RestoreFolder("u1", f)
    \/ \E i \in ImageIds : SoftDeleteImage("u1", i)
    \/ \E i \in ImageIds : RestoreImage("u1", i)

SpecClock == Init /\ [][NextClock]_vars

(* Removing records for good: folders that hold up to two images are     *)
(* trashed, hard deleted and permanently deleted.                         *)
NextPurge ==
    \/ \E u \in Users, n \in TrashNames, p \in {Null} \cup FolderIds :
          CreateFolderWithin(MaxFolders, u, n, p)
    \/ \E u \in Users, f \in FolderIds : UploadImageWithin(MaxPurgeImages, u, f)
    \/ \E u \in Users, f \in FolderIds : SoftDeleteFolder(u, f)
    \/ \E u \in Users, f \in FolderIds : HardDeleteFolder(u, f)
    \/ \E u \in Users, f \in FolderIds : PermanentDeleteFolder(u, f)
    \/ \E u \in Users, i \in PurgeImageIds : PermanentDeleteImage(u, i)

SpecPurge == Init /\ [][NextPurge]_vars

(* Hard deletes alone: one owner fills folders with images, either user   *)
(* asks for their removal.                                                *)
NextHardDelete ==
    \/ \E n \in TrashNames, p \in {Null} \cup FolderIds :
          CreateFolderWithin(MaxFolders, "u1", n, p)
    \/ \E f \in FolderIds : UploadImageWithin(MaxPurgeImages, "u1", f)
    \/ \E f \in FolderIds : SoftDeleteFolder("u1", f)
    \/ \E u \in Users, f \in FolderIds : HardDeleteFolder(u, f)

SpecHardDelete == Init /\ [][NextHardDelete]_vars

(* Every request of the routers, from two users, on a few names. *)
NextOwners ==
    \/ \E u \in Users, n \in TrashNames, p \in {Null} \cup FolderIds :
          CreateFolderWithin(MaxFolders, u, n, p)
    \/ \E u \in Users, f \in FolderIds, n \in TrashNames : RenameFolder(u, f, n)
    \/ \E u \in Users, f \in FolderIds : SoftDeleteFolder(u, f)
    \/ \E u \in Users, f \in FolderIds : HardDeleteFolder(u, f)
    \/ \E u \in Users, f \in FolderIds : RestoreFolder(u, f)
    \/ \E u \in Users, i \in ImageIds : RestoreImage(u, i)
    \/ \E u \in Users, f \in FolderIds : PermanentDeleteFolder(u, f)
    \/ \E u \in Users, i \in ImageIds : PermanentDeleteImage(u, i)
    \/ \E u \in Users, f \in FolderIds : UploadImageWithin(MaxImages, u, f)
    \/ \E u \in Users, i \in ImageIds : SoftDeleteImage(u, i)
    \/ \E u \in Users, i \in ImageIds, n \in TrashNames : RenameImage(u, i, n)

SpecOwners == Init /\ [][NextOwners]_vars

(* Trashing and restoring folders that hold images while the store may   *)
(* reject a write of the soft delete.                                     *)
NextFaults ==
    \/ \E u \in Users, n \in TrashNames, p \in {Null} \cup FolderIds :
          CreateFolderWithin(MaxFolders, u, n, p)
    \/ \E u \in Users, f \in FolderIds : UploadImageWithin(MaxImages, u, f)
    \/ \E u \in Users, f \in FolderIds : SoftDeleteFolder(u, f)
    \/ \E u \in Users, f \in FolderIds : SoftDeleteFolderStoreFails(u, f)
    \/ \E u \in Users, f \in FolderIds : RestoreFolder(u, f)

SpecFaults == Init /\ [][NextFaults]_vars

(* Folders whose names hold a regular-expression quantifier are created, *)
(* renamed, trashed and restored.                                         *)
ListNames == { <<"a", "*">>, <<"b">> }

NextListing ==
    \/ \E u \in Users, n \in ListNames, p \in {Null} \cup FolderIds :
          CreateFolderWithin(MaxFolders, u, n, p)
    \/ \E u \in Users, f \in FolderIds, n \in ListNames : RenameFolder(u, f, n)
    \/ \E u \in Users, f \in FolderIds : SoftDeleteFolder(u, f)
    \/ \E u \in Users, f \in FolderIds : RestoreFolder(u, f)

SpecListing == Init /\ [][NextListing]_vars

(* The retention sweep run on the collections the requests of two users  *)
(* leave, days apart.                                                     *)
NextSweep ==
    \/ \E d \in DaySpans : PassDays(d)
    \/ \E u \in Users, n \in TrashNames, p \in {Null} \cup FolderIds :
          CreateFolderWithin(MaxFolders, u, n, p)
    \/ \E u \in Users, f \in FolderIds : UploadImageWithin(MaxPurgeImages, u, f)
    \/ \E u \in Users, f \in FolderIds : SoftDeleteFolder(u, f)
    \/ \E u \in Users, f \in FolderIds : RestoreFolder(u, f)
    \/ CleanupOldTrash

SpecSweep == Init /\ [][NextSweep]_vars

(* The server as app.js starts it: the routers answer requests, days     *)
(* pass, and nothing calls cleanupOldTrash.  Days keep passing; no       *)
(* request has to arrive.                                                 *)
NextServer ==
    \/ \E d \in DaySpans : PassDays(d)
    \/ \E u \in Users, n \in TrashNames, p \in {Null} \cup FolderIds :
          CreateFolderWithin(MaxFolders, u, n, p)
    \/ \E u \in Users, f \in FolderIds : SoftDeleteFolder(u, f)
    \/ \E u \in Users, f \in FolderIds : RestoreFolder(u, f)
    \/ \E u \in Users, f \in FolderIds : PermanentDeleteFolder(u, f)

SpecServer ==
    Init /\ [][NextServer]_vars /\ WF_vars(\E d \in DaySpans : PassDays(d))

(* the folders reached from d by following parentFolder *)
RECURSIVE AncestorsUpTo(_, _, _)
AncestorsUpTo(fs, d, fuel) ==
    IF fuel = 0 \/ d \notin DOMAIN fs \/ fs[d]["parentFolder"] = Null
    THEN {}
    ELSE {fs[d]["parentFolder"]} \cup AncestorsUpTo(fs, fs[d]["parentFolder"], fuel - 1)

Ancestors(fs, d) == AncestorsUpTo(fs, d, Cardinality(DOMAIN fs))

(* Renames and creates of one user served side by side, on names that   *)
(* hold no regular-expression metacharacter.  A request that arrives     *)
(* while another is being served works on the same branch of the tree:   *)
(* a create under the folder a rename is on or under one of its          *)
(* descendants, a rename of an ancestor or a descendant of the folder    *)
(* another rename is on, a rename of the parent or an ancestor of the    *)
(* parent a create is under.                                              *)
RaceNames == { <<"a">>, <<"b">> }

(* F is an ancestor of G or G one of F *)
OnOneBranch(F, G) ==
    F \in Ancestors(folders, G) \/ G \in Ancestors(folders, F)

(* parent is F or lies below F *)
Under(parent, F) ==
    parent # Null /\ (parent = F \/ F \in Ancestors(folders, parent))

RenameMayArrive(F) ==
    \A d \in Calls :
        \/ calls[d] = Idle
        \/ calls[d]["op"] = "renameFolder" /\ OnOneBranch(F, calls[d]["id"])
        \/ calls[d]["op"] = "createFolder" /\ Under(calls[d]["parentFolder"], F)

CreateMayArrive(parent) ==
    \A d \in Calls :
        \/ calls[d] = Idle
        \/ calls[d]["op"] = "renameFolder" /\ Under(parent, calls[d]["id"])

NextRaces ==
    \/ \E c \in Calls, n \in RaceNames, p \in {Null} \cup FolderIds :
          /\ nextFolderId + Standing("createFolder", "save") <= MaxFolders
          /\ CreateMayArrive(p)
          /\ CreateFolderFind(c, "u1", n, p)
    \/ \E c \in Calls : CreateFolderSave(c)
    \/ \E c \in Calls, f \in FolderIds, n \in RaceNames :
          RenameMayArrive(f) /\ RenameFolderFind(c, "u1", f, n)
    \/ \E c \in Calls : RenameFolderDuplicate(c)
    \/ \E c \in Calls : RenameFolderParent(c)
    \/ \E c \in Calls : RenameFolderSave(c)
    \/ \E c \in Calls : RenameFolderSubfolders(c)
    \/ \E c \in Calls : RenameFolderRewrite(c)

SpecRaces == Init /\ [][NextRaces]_vars

(* Uploads served side by side with the removal of folders: while an    *)
(* upload waits for the store or for the object store, folders are       *)
(* created, trashed, hard deleted or swept, each of these handlers       *)
(* served from start to end, and days pass.                               *)
NextUploads ==
    \/ \E d \in DaySpans : PassDays(d)
    \/ \E u \in Users, n \in TrashNames, p \in {Null} \cup FolderIds :
          CreateFolderWithin(MaxFolders, u, n, p)
    \/ \E c \in Calls, u \in Users, f \in FolderIds :
          /\ nextImageId + Standing("uploadImage", "store") <= MaxImages
          /\ UploadImageFind(c, u, f)
    \/ \E c \in Calls : UploadImageStore(c)
    \/ \E c \in Calls : UploadImageSave(c)
    \/ \E u \in Users, f \in FolderIds : SoftDeleteFolder(u, f)
    \/ \E u \in Users, f \in FolderIds : HardDeleteFolder(u, f)
    \/ CleanupOldTrash

SpecUploads == Init /\ [][NextUploads]_vars

----------------
(* Properties *)

(* s starts with the characters of p, compared literally *)
StartsWith(s, p) == Len(s) >= Len(p) /\ SubSeq(s, 1, Len(p)) = p

(* candidate is root's path or lies below it: the separator anchors the  *)
(* prefix                                                                 *)
IsDescendantPath(candidate, root) ==
    candidate = root \/ StartsWith(candidate, root \o <<"/">>)

Succeeded(r, op) == r["op"] = op /\ r["status"] = 200

(* C1: after any sequence of CreateFolder and RenameFolder requests every *)
(* folder's path is its name when it has no parent, and the path of the   *)
(* folder parentFolder refers to, a "/" and its name otherwise.           *)
C1_PathMatchesParent ==
    \A f \in DOMAIN folders :
        LET d == folders[f]
        IN  IF d["parentFolder"] = Null
            THEN d["path"] = d["name"]
            ELSE d["parentFolder"] \in DOMAIN folders
                 => d["path"] = JoinPath(folders[d["parentFolder"]]["path"], d["name"])

(* C2: a successful RenameFolder of F from path P to path P2 turns the    *)
(* path P + s of every proper descendant of F, trashed or not, into       *)
(* P2 + s and leaves the path of every other folder as it was.            *)
C2_RenameRewritesDescendantsOnly ==
    [][ Succeeded(resp', "renameFolder") =>
          LET F == resp'["id"]
              P == folders[F]["path"]
              P2 == folders'[F]["path"]
          IN  \A d \in (DOMAIN folders) \ {F} :
                IF F \in Ancestors(folders, d)
                THEN StartsWith(folders[d]["path"], P \o <<"/">>)
                     => folders'[d]["path"] =
                          P2 \o SubSeq(folders[d]["path"], Len(P) + 1,
                                       Len(folders[d]["path"]))
                ELSE folders'[d]["path"] = folders[d]["path"] ]_vars

(* C3: a successful SoftDeleteFolder of F marks as trashed the folders of *)
(* F's owner whose path is F's path or starts with F's path and a "/",    *)
(* and changes no other folder.                                           *)
C3_SoftDeleteMarksExactlySubtree ==
    [][ Succeeded(resp', "softDeleteFolder") =>
          LET F == resp'["id"]
          IN  \A d \in DOMAIN folders :
                IF /\ folders[d]["user"] = folders[F]["user"]
                   /\ IsDescendantPath(folders[d]["path"], folders[F]["path"])
                THEN d \in DOMAIN folders' /\ folders'[d]["isDeleted"] = TRUE
                ELSE d \in DOMAIN folders' /\ folders'[d] = folders[d] ]_vars

(* C4: after a successful SoftDeleteFolder of F every image whose folder  *)
(* is in F's subtree is stored with isDeleted = true and a deletedAt.     *)
C4_SoftDeleteTrashesImages ==
    Succeeded(resp, "softDeleteFolder") =>
        \A i \in DOMAIN images :
            ( /\ images[i]["folder"] \in DOMAIN folders
              /\ IsDescendantPath(folders[images[i]["folder"]]["path"],
                                  folders[resp["id"]]["path"]) )
            => ImageTrashed(images[i]) /\ ImageDeletedAt(images[i]) # Null

(* C5: no two non-deleted folders of one owner under one parent have the *)
(* same name.                                                             *)
C5_ActiveSiblingNamesUnique ==
    \A f, g \in DOMAIN folders :
        ( /\ f # g
          /\ folders[f]["isDeleted"] # TRUE
          /\ folders[g]["isDeleted"] # TRUE
          /\ folders[f]["user"] = folders[g]["user"]
          /\ folders[f]["parentFolder"] = folders[g]["parentFolder"] )
        => folders[f]["name"] # folders[g]["name"]

(* a folder has just been restored next to a non-deleted sibling *)
C5_RestoredNextToSibling ==
    /\ Succeeded(resp, "restoreFolder")
    /\ \E g \in DOMAIN folders :
          /\ g # resp["id"]
          /\ folders[g]["isDeleted"] = FALSE
          /\ folders[g]["user"] = folders[resp["id"]]["user"]
          /\ folders[g]["parentFolder"] = folders[resp["id"]]["parentFolder"]

NotFound(r) == r["status"] = 404
InvalidInput(r) == r["status"] = 400 /\ r["message"] \in
    {"Folder name is required", "New folder name is required"}
Conflict(r) ==
    \/ r["status"] = 409
    \/ /\ r["status"] = 400
       /\ r["message"] = "A folder with this name already exists in the same location"

(* another non-deleted folder of u under parent holds name *)
ActiveSiblingNamed(u, parent, name, except) ==
    \E o \in (DOMAIN folders) \ {except} :
        /\ folders[o]["user"] = u
        /\ folders[o]["parentFolder"] = parent
        /\ folders[o]["name"] = name
        /\ folders[o]["isDeleted"] = FALSE

(* C6: CreateFolder answers NotFound when the parent id names no folder  *)
(* of the caller and Conflict, not a server failure, when a non-deleted  *)
(* sibling holds the name, creating and changing nothing in both cases;  *)
(* otherwise it creates the folder with path name, or parent path, "/"   *)
(* and name.                                                              *)
C6_CreateFolderResults ==
    [][ resp'["op"] = "createFolder" =>
          \A u \in Users, n \in NameInputs, p \in {Null} \cup FolderIds :
            (CreateFolder(u, n, p) /\ Trim(n) # <<>>) =>
              IF p # Null /\ ~(p \in DOMAIN folders /\ folders[p]["user"] = u)
              THEN NotFound(resp') /\ folders' = folders
              ELSE IF ActiveSiblingNamed(u, p, Trim(n), Null)
              THEN Conflict(resp') /\ folders' = folders
              ELSE /\ resp'["status"] = 201
                   /\ DOMAIN folders' = (DOMAIN folders) \cup {resp'["id"]}
                   /\ \A f \in DOMAIN folders : folders'[f] = folders[f]
                   /\ folders'[resp'["id"]]["path"] =
                        IF p = Null THEN Trim(n)
                        ELSE JoinPath(folders[p]["path"], Trim(n)) ]_vars

(* C7: RenameFolder answers InvalidInput for an empty or whitespace-only *)
(* name, NotFound for a folder that is missing, not the caller's or      *)
(* trashed, and Conflict when another non-deleted sibling holds the new  *)
(* name; no folder changes in any of these cases.                        *)
C7_RenameFolderFailures ==
    \A u \in Users, f \in FolderIds, n \in NameInputs :
        LET r == RenameResult(u, f, n)
            missing == \/ f \notin DOMAIN folders
                       \/ folders[f]["user"] # u
                       \/ folders[f]["isDeleted"] = TRUE
        IN  /\ Trim(n) = <<>> => InvalidInput(r) /\ r["folders"] = folders
            /\ (Trim(n) # <<>> /\ missing) => NotFound(r) /\ r["folders"] = folders
            /\ ( /\ Trim(n) # <<>>
                 /\ ~missing
                 /\ ActiveSiblingNamed(u, folders[f]["parentFolder"], Trim(n), f) )
                 => Conflict(r) /\ r["folders"] = folders

(* a rename has just been refused because a sibling holds the name *)
C7_RenameRefusedAsConflict ==
    /\ resp["op"] = "renameFolder"
    /\ Conflict(resp)

(* C8: a second SoftDeleteFolder of the same folder succeeds and leaves  *)
(* isDeleted and deletedAt of every folder and image as they were after  *)
(* the first.                                                             *)
C8_SecondSoftDeleteChangesNothing ==
    trip["stage"] = "deletedAgain" =>
        resp["status"] = 200 /\ trip["mid"] = trip["pre"]

(* the trash fields of folder F and of the images directly in it equal   *)
(* the ones recorded in pre                                               *)
RoundTripped(F, pre) ==
    /\ TrashFields(folders)[F] = pre["folders"][F]
    /\ \A i \in DOMAIN pre["images"] :
          images[i]["folder"] = F => TrashFields(images)[i] = pre["images"][i]

(* C9 as stated: SoftDeleteFolder(F) followed by RestoreFolder(F) gives  *)
(* F and the images directly in F the isDeleted and deletedAt they had   *)
(* before the soft delete, whatever they were.                            *)
C9_RoundTripFromAnyState ==
    trip["stage"] = "restored" => RoundTripped(trip["id"], trip["pre"])

(* C9 amended: the same for a folder F that is not trashed before the    *)
(* soft delete.                                                           *)
C9_RoundTripFromActive ==
    ( /\ trip["stage"] = "restored"
      /\ trip["pre"]["folders"][trip["id"]] = <<FALSE, Null>> )
    => RoundTripped(trip["id"], trip["pre"])

(* an active folder holding an image has been soft deleted and restored *)
C9_RoundTripDone ==
    /\ trip["stage"] = "restored"
    /\ trip["pre"]["folders"][trip["id"]] = <<FALSE, Null>>
    /\ \E i \in DOMAIN images : images[i]["folder"] = trip["id"]

(* C10: RestoreFolder answers NotFound and changes nothing unless F is   *)
(* the caller's and trashed; when it succeeds F is not deleted and has   *)
(* no deletedAt, neither has any image directly in F, and every other    *)
(* folder and every image of another folder is unchanged.                *)
C10_RestoreFolderEffect ==
    [][ resp'["op"] = "restoreFolder" =>
          \A u \in Users, f \in FolderIds :
            RestoreFolder(u, f) =>
              IF ~( /\ f \in DOMAIN folders
                    /\ folders[f]["user"] = u
                    /\ folders[f]["isDeleted"] = TRUE )
              THEN NotFound(resp') /\ folders' = folders /\ images' = images
              ELSE /\ resp'["status"] = 200
                   /\ DOMAIN folders' = DOMAIN folders
                   /\ DOMAIN images' = DOMAIN images
                   /\ TrashFields(folders')[f] = <<FALSE, Null>>
                   /\ \A g \in (DOMAIN folders) \ {f} : folders'[g] = folders[g]
                   /\ \A i \in DOMAIN images :
                         IF images[i]["folder"] = f
                         THEN TrashFields(images')[i] = <<FALSE, Null>>
                         ELSE images'[i] = images[i] ]_vars

(* a folder holding an image has just been restored while one of its     *)
(* subfolders stays trashed                                               *)
C10_RestoredAboveTrashedSubfolder ==
    /\ Succeeded(resp, "restoreFolder")
    /\ \E g \in DOMAIN folders :
          folders[g]["parentFolder"] = resp["id"] /\ folders[g]["isDeleted"] = TRUE
    /\ \E i \in DOMAIN images : images[i]["folder"] = resp["id"]

----------------------------------------------------------------------------
(* Removing records *)

(* the folders of F's owner whose path is F's path or below it *)
SubtreeOf(fs, F) ==
    { d \in DOMAIN fs :
        /\ fs[d]["user"] = fs[F]["user"]
        /\ IsDescendantPath(fs[d]["path"], fs[F]["path"]) }

(* how many destroy calls of the log name the public id pid *)
DestroyCalls(events, pid) ==
    Cardinality({ j \in 1..Len(events) :
                    events[j]["kind"] = "destroy" /\ pid \in events[j]["ids"] })

(* the public ids the destroy calls of the log name *)
DestroyCalled(events) ==
    UNION { events[j]["ids"] : j \in { k \in 1..Len(events) :
                                          events[k]["kind"] = "destroy" } }

(* C11: HardDeleteFolder by u of a folder F that u does not own answers  *)
(* NotFound and changes nothing; of a folder u owns, trashed or not, it  *)
(* removes the folders of F's subtree and the images in them and nothing *)
(* else, and calls destroy exactly once for the public id of each of     *)
(* these images and for no other.                                         *)
C11_HardDeleteRemovesExactlySubtree ==
    [][ \A u \in Users, F \in FolderIds :
          HardDeleteFolder(u, F) =>
            IF ~OwnedFolder(u, F)
            THEN /\ NotFound(resp')
                 /\ folders' = folders /\ images' = images /\ cloud' = cloud
                 /\ log' = << >>
            ELSE LET sub == SubtreeOf(folders, F)
                     imgs == ImagesInFolders(sub)
                 IN  /\ resp'["status"] = 200
                     /\ folders' = Remove(folders, sub)
                     /\ images' = Remove(images, imgs)
                     /\ DestroyCalled(log') = PublicIds(imgs)
                     /\ \A pid \in PublicIds(imgs) : DestroyCalls(log', pid) = 1
      ]_vars

(* some destroy call of the log failed *)
DestroyFailed(events) ==
    \E j \in 1..Len(events) : events[j]["kind"] = "destroy" /\ ~events[j]["ok"]

(* C12: a HardDeleteFolder of an owned folder F in which a destroy call  *)
(* fails still calls destroy for every image of F's subtree, removes the *)
(* image and folder records of the subtree and answers success.           *)
C12_HardDeleteSurvivesFailedDestroy ==
    [][ \A u \in Users, F \in FolderIds :
          ( /\ HardDeleteFolder(u, F)
            /\ OwnedFolder(u, F)
            /\ DestroyFailed(log') )
          => LET sub == SubtreeOf(folders, F)
                 imgs == ImagesInFolders(sub)
             IN  /\ resp'["status"] = 200
                 /\ PublicIds(imgs) \subseteq DestroyCalled(log')
                 /\ sub \cap DOMAIN folders' = {}
                 /\ imgs \cap DOMAIN images' = {}
      ]_vars

(* a hard delete whose first destroy call failed went on to a second one *)
C12_FirstOfTwoDestroysFailed ==
    /\ resp["op"] = "hardDeleteFolder"
    /\ Len(log) >= 2
    /\ log[1]["kind"] = "destroy" /\ ~log[1]["ok"]
    /\ log[2]["kind"] = "destroy"
    /\ images = << >>

(* in the log, every record removal of an image of imgs comes after a    *)
(* destroy call for the public id the image held                          *)
DestroyBeforeRemoval(events, imgs) ==
    \A j \in 1..Len(events) :
        events[j]["kind"] = "deleteImages" =>
            \A i \in events[j]["ids"] \cap DOMAIN imgs :
                \E k \in 1..(j - 1) :
                    /\ events[k]["kind"] = "destroy"
                    /\ imgs[i]["cloudinaryPublicId"] \in events[k]["ids"]

(* C13: PermanentDelete of an image or a folder answers NotFound and     *)
(* changes nothing unless the item is the caller's and trashed; when it  *)
(* succeeds, destroy was called for each image before the image's record *)
(* was removed and the item's record is gone.                             *)
C13_PermanentDeleteOnlyTrashed ==
    [][ /\ \A u \in Users, i \in PurgeImageIds :
              PermanentDeleteImage(u, i) =>
                IF ~( /\ i \in DOMAIN images
                      /\ images[i]["user"] = u
                      /\ ImageTrashed(images[i]) )
                THEN /\ NotFound(resp')
                     /\ folders' = folders /\ images' = images /\ cloud' = cloud
                ELSE resp'["status"] = 200 =>
                       /\ DestroyBeforeRemoval(log', images)
                       /\ i \notin DOMAIN images'
        /\ \A u \in Users, F \in FolderIds :
              PermanentDeleteFolder(u, F) =>
                IF ~( /\ F \in DOMAIN folders
                      /\ folders[F]["user"] = u
                      /\ folders[F]["isDeleted"] = TRUE )
                THEN /\ NotFound(resp')
                     /\ folders' = folders /\ images' = images /\ cloud' = cloud
                ELSE resp'["status"] = 200 =>
                       /\ DestroyBeforeRemoval(log', images)
                       /\ F \notin DOMAIN folders'
                       /\ \A i \in (DOMAIN images) \ DOMAIN images' :
                              \E j \in 1..Len(log') :
                                  log'[j]["kind"] = "deleteImages" /\ i \in log'[j]["ids"]
      ]_vars

(* C14: a PermanentDelete that found its item and in which a destroy     *)
(* call fails still calls destroy for the other images and removes the   *)
(* image and folder records.                                              *)
C14_PermanentDeleteSurvivesFailedDestroy ==
    [][ /\ \A u \in Users, F \in FolderIds :
              ( /\ PermanentDeleteFolder(u, F)
                /\ TrashedOwnedFolder(u, F)
                /\ DestroyFailed(log') )
              => /\ PublicIds(ImagesOf(u, F)) \subseteq DestroyCalled(log')
                 /\ F \notin DOMAIN folders'
                 /\ ImagesOf(u, F) \cap DOMAIN images' = {}
        /\ \A u \in Users, i \in PurgeImageIds :
              ( /\ PermanentDeleteImage(u, i)
                /\ OwnedImage(u, i, TRUE)
                /\ DestroyFailed(log') )
              => i \notin DOMAIN images'
      ]_vars

----------------------------------------------------------------------------
(* The retention sweep *)

(* the trash fields <<isDeleted, deletedAt>> of a document say it was    *)
(* trashed more than DAYS_TO_KEEP days before day                         *)
Expired(fields, day) ==
    fields[1] = TRUE /\ fields[2] # Null /\ day - fields[2] > DAYS_TO_KEEP

(* they say it is not trashed, or trashed less than DAYS_TO_KEEP days    *)
(* before day                                                             *)
Retained(fields, day) ==
    fields[1] = FALSE \/ (fields[2] # Null /\ day - fields[2] < DAYS_TO_KEEP)

(* C15: a sweep in which no destroy call fails removes every folder and  *)
(* image trashed more than 30 days before it and leaves every folder and *)
(* image that is not trashed, or trashed less than 30 days before it, as *)
(* it was.                                                                *)
C15_SweepPurgesExactlyExpired ==
    [][ (CleanupOldTrash /\ ~DestroyFailed(log')) =>
          /\ \A f \in DOMAIN folders :
                /\ Expired(TrashFields(folders)[f], now) => f \notin DOMAIN folders'
                /\ Retained(TrashFields(folders)[f], now) =>
                      f \in DOMAIN folders' /\ folders'[f] = folders[f]
          /\ \A i \in DOMAIN images :
                /\ Expired(TrashFields(images)[i], now) => i \notin DOMAIN images'
                /\ Retained(TrashFields(images)[i], now) =>
                      /\ i \in DOMAIN images' /\ images'[i] = images[i]
                      /\ images[i]["cloudinaryPublicId"] \notin DestroyCalled(log')
      ]_vars

(* C16: a sweep in which a destroy call fails still calls destroy for    *)
(* every other image it selected and removes their records, and removes  *)
(* every folder trashed more than 30 days before it.                      *)
C16_SweepSurvivesFailedDestroy ==
    [][ (CleanupOldTrash /\ DestroyFailed(log')) =>
          /\ \A f \in DOMAIN folders :
                Expired(TrashFields(folders)[f], now) => f \notin DOMAIN folders'
          /\ \A i \in DOMAIN images :
                ( /\ ImageDeletedIs(images[i], TRUE)
                  /\ ImageDeletedBefore(images[i], now - DAYS_TO_KEEP)
                  /\ \A j \in 1..Len(log') :
                        images[i]["cloudinaryPublicId"] \in log'[j]["ids"] => log'[j]["ok"] )
                => /\ images[i]["cloudinaryPublicId"] \in DestroyCalled(log')
                   /\ i \notin DOMAIN images'
      ]_vars

(* C17: in the running server a folder that is trashed for more than 30  *)
(* days is in the end removed, or is no longer trashed, whatever         *)
(* requests arrive or do not arrive.                                      *)
C17_ExpiredEventuallyPurged ==
    \A f \in FolderIds :
        (f \in DOMAIN folders /\ Expired(TrashFields(folders)[f], now))
        ~> (f \notin DOMAIN folders \/ folders[f]["isDeleted"] = FALSE)

----------------------------------------------------------------------------
(* Listing *)

(* C19: ListFolders returns each non-deleted folder of the caller once   *)
(* and no other folder, in ascending order of path, every folder after   *)
(* the ancestors of it that are listed.                                   *)
C19_ListFoldersSortedParentsFirst ==
    \A u \in Users :
        LET L == ListFolders(u)
        IN  /\ { L[k] : k \in 1..Len(L) } =
                  { f \in DOMAIN folders :
                      folders[f]["user"] = u /\ folders[f]["isDeleted"] = FALSE }
            /\ \A j, k \in 1..Len(L) :
                  /\ (j # k => L[j] # L[k])
                  /\ (j < k => ~StringBefore(folders[L[k]]["path"], folders[L[j]]["path"]))
                  /\ (L[j] \in Ancestors(folders, L[k]) => j < k)

----------------------------------------------------------------------------
(* Store failures *)

(* C20: a SoftDeleteFolder of an owned folder F in which the store       *)
(* rejects a write either changes no folder and no image, or leaves      *)
(* every folder of F's subtree trashed together with every image in      *)
(* them.                                                                  *)
C20_SoftDeleteAllOrNothing ==
    [][ \A u \in Users, F \in FolderIds :
          (SoftDeleteFolderStoreFails(u, F) /\ OwnedFolder(u, F)) =>
            \/ folders' = folders /\ images' = images
            \/ LET sub == SubtreeOf(folders, F)
               IN  /\ \A d \in sub : folders'[d]["isDeleted"] = TRUE
                   /\ \A i \in ImagesInFolders(sub) : ImageTrashed(images'[i])
      ]_vars

----------------------------------------------------------------------------
(* Owners *)

(* the documents of coll that belong to u *)
Own(coll, u) ==
    [k \in { d \in DOMAIN coll : coll[d]["user"] = u } |-> coll[k]]

(* the payloads of u's images that the object store holds *)
OwnPayloads(u) ==
    cloud \cap { images[i]["cloudinaryPublicId"] : i \in DOMAIN Own(images, u) }

(* What u can observe: the lists u is served, and whatever decides the   *)
(* answer to a request of u: the lookups of folders and images by id,    *)
(* the outcome of a rename, whether the unique index lets u save a name  *)
(* under a parent.                                                        *)
Observes(u) ==
    [ listFolders |-> ListFolders(u),
      listTrash |-> ListTrash(u),
      listImages |-> [f \in FolderIds |-> ListImages(u, f)],
      folderFound |-> [f \in FolderIds |->
          <<OwnedFolder(u, f), ActiveOwnedFolder(u, f), TrashedOwnedFolder(u, f)>>],
      imageFound |-> [i \in ImageIds |->
          <<OwnedImage(u, i, FALSE), OwnedImage(u, i, TRUE)>>],
      rename |-> [f \in FolderIds, n \in TrashNames |->
          LET r == RenameResult(u, f, n)
          IN  <<r["status"], r["message"], Own(r["folders"], u)>>],
      nameTaken |-> [n \in TrashNames, p \in {Null} \cup FolderIds |->
          UniqueIndexViolated(folders, Null,
              [user |-> u, parentFolder |-> p, name |-> n])] ]

(* the step is a request of user v *)
RequestBy(v) ==
    \/ /\ resp'["op"] = "createFolder"
       /\ \E n \in TrashNames, p \in {Null} \cup FolderIds : CreateFolder(v, n, p)
    \/ /\ resp'["op"] = "renameFolder"
       /\ \E f \in FolderIds, n \in TrashNames : RenameFolder(v, f, n)
    \/ /\ resp'["op"] = "softDeleteFolder"
       /\ \E f \in FolderIds : SoftDeleteFolder(v, f)
    \/ /\ resp'["op"] = "hardDeleteFolder"
       /\ \E f \in FolderIds : HardDeleteFolder(v, f)
    \/ /\ resp'["op"] = "restoreFolder"
       /\ \E f \in FolderIds : RestoreFolder(v, f)
    \/ /\ resp'["op"] = "restoreImage"
       /\ \E i \in ImageIds : RestoreImage(v, i)
    \/ /\ resp'["op"] = "permanentDeleteFolder"
       /\ \E f \in FolderIds : PermanentDeleteFolder(v, f)
    \/ /\ resp'["op"] = "permanentDeleteImage"
       /\ \E i \in ImageIds : PermanentDeleteImage(v, i)
    \/ /\ resp'["op"] = "uploadImage"
       /\ \E f \in FolderIds : UploadImage(v, f)
    \/ /\ resp'["op"] = "softDeleteImage"
       /\ \E i \in ImageIds : SoftDeleteImage(v, i)
    \/ /\ resp'["op"] = "renameImage"
       /\ \E i \in ImageIds, n \in TrashNames : RenameImage(v, i, n)

(* C18: the lists a user is served hold that user's documents only, and  *)
(* a request of user v leaves every other user's folders, images and     *)
(* payloads as they were and changes nothing of what another user        *)
(* observes.  What a user observes is read from the two collections, so  *)
(* it is compared only across the steps that change one of them.         *)
C18_OwnersIsolated ==
    [][ /\ \A u \in Users :
              /\ \A k \in 1..Len(ListFolders(u)) :
                    folders[ListFolders(u)[k]]["user"] = u
              /\ \A f \in DOMAIN ListTrash(u)["folders"] :
                    ListTrash(u)["folders"][f]["user"] = u
              /\ \A i \in DOMAIN ListTrash(u)["images"] :
                    ListTrash(u)["images"][i]["user"] = u
              /\ \A f \in FolderIds : \A i \in DOMAIN ListImages(u, f) :
                    ListImages(u, f)[i]["user"] = u
        /\ \A v \in Users :
              RequestBy(v) =>
                \A u \in Users \ {v} :
                    /\ Own(folders', u) = Own(folders, u)
                    /\ Own(images', u) = Own(images, u)
                    /\ OwnPayloads(u)' = OwnPayloads(u)
                    /\ \/ folders' = folders /\ images' = images
                       \/ Observes(u)' = Observes(u)
      ]_vars

(* a user's soft delete went through while another user holds a folder  *)
(* of the same path, not trashed, with an image in it                     *)
C18_SoftDeleteNextToAnotherOwner ==
    /\ Succeeded(resp, "softDeleteFolder")
    /\ \E g \in DOMAIN folders :
          /\ folders[g]["user"] # folders[resp["id"]]["user"]
          /\ folders[g]["path"] = folders[resp["id"]]["path"]
          /\ folders[g]["isDeleted"] = FALSE
          /\ \E i \in DOMAIN images :
                images[i]["folder"] = g /\ images[i]["cloudinaryPublicId"] \in cloud

----------------------------------------------------------------------------
(* Images *)

(* the request answered by r moved image i to the trash: a successful    *)
(* soft delete of the image, or of the folder the image is in             *)
MovedToTrashBy(r, is, i) ==
    \/ Succeeded(r, "softDeleteImage") /\ r["id"] = i
    \/ Succeeded(r, "softDeleteFolder") /\ is[i]["folder"] = r["id"]

(* upload answers success only for a folder of the caller that is not    *)
(* trashed, and an image record appears only together with its payload   *)
UploadScoped ==
    \A u \in Users, f \in FolderIds :
        UploadImage(u, f) =>
            /\ resp'["status"] = 201 =>
                  /\ f \in DOMAIN folders
                  /\ folders[f]["user"] = u
                  /\ folders[f]["isDeleted"] = FALSE
            /\ \A i \in (DOMAIN images') \ DOMAIN images :
                  /\ resp'["status"] = 201
                  /\ images'[i]["cloudinaryPublicId"] \in cloud'
            /\ resp'["status"] # 201 => images' = images /\ cloud' = cloud

(* rename and soft delete of an image that is not the caller's, or that  *)
(* is trashed, answer NotFound and change nothing                         *)
ImageWritesScoped ==
    \A u \in Users, i \in ImageIds :
        LET refused == \/ i \notin DOMAIN images
                       \/ images[i]["user"] # u
                       \/ ImageTrashed(images[i])
                       \/ MovedToTrashBy(resp, images, i)
        IN  /\ (SoftDeleteImage(u, i) /\ refused) =>
                  NotFound(resp') /\ images' = images
            /\ \A n \in TrashNames :
                  (RenameImage(u, i, n) /\ refused) =>
                      NotFound(resp') /\ images' = images

(* no list of images holds an image that is trashed *)
ListsHoldNoTrashedImage ==
    \A u \in Users, f \in FolderIds :
        \A i \in DOMAIN ListImages(u, f) :
            ~ImageTrashed(images[i]) /\ ~MovedToTrashBy(resp, images, i)

(* C21: upload succeeds only into a folder the caller owns that is not   *)
(* trashed and stores the image record only once the object store holds  *)
(* the payload; no list of images returns a trashed image; rename and    *)
(* soft delete of an image that is trashed or not the caller's answer    *)
(* NotFound and change nothing.                                           *)
C21_ImageOperationsScoped ==
    [][ UploadScoped /\ ImageWritesScoped /\ ListsHoldNoTrashedImage' ]_vars

----------------------------------------------------------------------------
(* Names of trashed folders *)

(* name is held under parent by a trashed folder of u other than except, *)
(* and by no folder of u that is not deleted                              *)
HeldByTrashedOnly(u, parent, name, except) ==
    /\ \E o \in (DOMAIN folders) \ {except} :
          /\ folders[o]["user"] = u
          /\ folders[o]["parentFolder"] = parent
          /\ folders[o]["name"] = name
          /\ folders[o]["isDeleted"] = TRUE
    /\ ~ActiveSiblingNamed(u, parent, name, except)

(* C22: CreateFolder under a parent of the caller (or at the root) and   *)
(* RenameFolder of a non-deleted folder of the caller succeed when the   *)
(* name asked for is held under the same parent only by a trashed folder *)
(* of the caller.                                                         *)
C22_TrashedNamesAreFree ==
    [][ /\ \A u \in Users, n \in NameInputs, p \in {Null} \cup FolderIds :
              ( /\ CreateFolder(u, n, p)
                /\ Trim(n) # << >>
                /\ p # Null => OwnedFolder(u, p)
                /\ HeldByTrashedOnly(u, p, Trim(n), Null) )
              => resp'["status"] = 201
        /\ \A u \in Users, f \in FolderIds, n \in NameInputs :
              ( /\ RenameFolder(u, f, n)
                /\ Trim(n) # << >>
                /\ ActiveOwnedFolder(u, f)
                /\ HeldByTrashedOnly(u, folders[f]["parentFolder"], Trim(n), f) )
              => resp'["status"] = 200
      ]_vars

----------------------------------------------------------------------------
(* Requests served side by side *)

NoCallInFlight == \A c \in Calls : calls[c] = Idle

(* C23: when a rename of a folder is served side by side with a create   *)
(* under it or under one of its descendants, or with a rename of one of  *)
(* its ancestors or descendants, then once every request is answered     *)
(* every folder's path is its name when it has no parent, and the path   *)
(* of its parent, a "/" and its name otherwise.                           *)
C23_PathsSurviveInterleaving ==
    NoCallInFlight =>
        \A f \in DOMAIN folders :
            LET d == folders[f]
            IN  IF d["parentFolder"] = Null
                THEN d["path"] = d["name"]
                ELSE /\ d["parentFolder"] \in DOMAIN folders
                     /\ d["path"] = JoinPath(folders[d["parentFolder"]]["path"],
                                             d["name"])

----------------------------------------------------------------------------
(* Trash fields *)

(* the trash fields <<isDeleted, deletedAt>> agree: trashed with a date, *)
(* or not trashed and without one                                         *)
FlagMatchesDate(fields) == (fields[1] = TRUE) <=> (fields[2] # Null)

(* C24: in every state, every folder and every image has isDeleted true  *)
(* exactly when its deletedAt holds a date.                               *)
C24_DeletedFlagMatchesDate ==
    /\ \A f \in DOMAIN folders : FlagMatchesDate(TrashFields(folders)[f])
    /\ \A i \in DOMAIN images : FlagMatchesDate(TrashFields(images)[i])

(* a folder holding an image has just been restored while another folder *)
(* stays in the trash with its date                                       *)
C24_RestoredNextToTrashed ==
    /\ Succeeded(resp, "restoreFolder")
    /\ TrashFields(folders)[resp["id"]] = <<FALSE, Null>>
    /\ \E g \in DOMAIN folders :
          TrashFields(folders)[g][1] = TRUE /\ TrashFields(folders)[g][2] # Null
    /\ \E i \in DOMAIN images : images[i]["folder"] = resp["id"]

----------------------------------------------------------------------------
(* References *)

(* C25: in every state, every folder with a parentFolder refers to a     *)
(* folder that is stored and belongs to the same user.                    *)
C25_ParentsExist ==
    \A f \in DOMAIN folders :
        folders[f]["parentFolder"] # Null =>
            /\ folders[f]["parentFolder"] \in DOMAIN folders
            /\ folders[folders[f]["parentFolder"]]["user"] = folders[f]["user"]

(* C26: in every state, also while an upload is served side by side with *)
(* a hard delete of its folder and after the sweep ran, every image      *)
(* refers to a folder that is stored and belongs to the image's user.    *)
C26_ImageFoldersExist ==
    \A i \in DOMAIN images :
        /\ images[i]["folder"] \in DOMAIN folders
        /\ folders[images[i]["folder"]]["user"] = images[i]["user"]

----------------------------------------------------------------------------
(* Trash state along the hierarchy *)

(* no folder that is not deleted lies below a trashed folder *)
NoActiveFolderBelowTrashed ==
    \A f \in DOMAIN folders :
        folders[f]["isDeleted"] = FALSE =>
            \A a \in Ancestors(folders, f) \cap DOMAIN folders :
                folders[a]["isDeleted"] = FALSE

(* no image that is not deleted is in a trashed folder *)
NoActiveImageInTrashed ==
    \A i \in DOMAIN images :
        ( /\ ~ImageTrashed(images[i])
          /\ images[i]["folder"] \in DOMAIN folders )
        => folders[images[i]["folder"]]["isDeleted"] = FALSE

(* C27: in every state that completed requests reach, no folder that is  *)
(* not deleted has a trashed ancestor and no image that is not deleted   *)
(* is in a trashed folder.                                                *)
C27_TrashDownwardClosed ==
    NoActiveFolderBelowTrashed /\ NoActiveImageInTrashed

====
